---------------------------- MODULE Spec2Model ----------------------------
(***************************************************************************)
(* Quiz session and leaderboard engine of vocab-quizzer.                   *)
(*                                                                         *)
(* QuizService (src/unnamed/part_007) runs on the Node.js event loop: a    *)
(* handler runs until its next `await` of a RedisService call              *)
(* (src/unnamed/part_009), and every Redis command executes atomically on  *)
(* the server.  A handler is therefore a sequence of atomic store steps,   *)
(* and the steps of handlers in flight interleave in any order.            *)
(***************************************************************************)
EXTENDS Integers, Sequences, FiniteSets, TLC

VARIABLES
    session,            \* quiz:session:{quizId}           (string key, JSON)
    sessionTTL,         \* remaining lifetime of that key  (-2 absent, -1 none)
    participants,       \* quiz:participants:{quizId}      (set)
    participant,        \* quiz:participant:{quizId}:{userId}
    scores,             \* quiz:scores:{quizId}            (sorted set)
    answers,            \* quiz:answers:{quizId}:{userId}  (hash)
    currentQuestion,    \* quiz:current_question:{quizId}
    pc,                 \* per handler slot: the await it is suspended at
    call,               \* per handler slot: the arguments of the call
    loc,                \* per handler slot: the local variables
    calls,              \* the most recent completed calls, with their results
    pre,                \* the store as it was when the latest call began
    scoreEvents,        \* incrementScore commands issued per triple
    startWrites,        \* session writes issued by startQuiz, per quiz
    completeWrites,     \* session writes issued by completeQuiz, per quiz
    maxParticipants,    \* QuizService.maxParticipants, set by the constructor
    env,                \* the callers: how many at once, and what they send
    connections,        \* QuizGateway: the ids of the sockets that are open
    clientOf,           \* which client opened the socket of an id ("-": none yet)
    userSocketMap,      \* QuizGateway.userSocketMap   (userId -> socketId)
    socketUserMap       \* QuizGateway.socketUserMap   (socketId -> user info)

store == <<session, sessionTTL, participants, participant, scores, answers,
           currentQuestion>>
slots == <<pc, call, loc>>
ghost == <<calls, pre, scoreEvents, startWrites, completeWrites>>
gateway == <<connections, clientOf, userSocketMap, socketUserMap>>
(* what no QuizService step writes *)
config == <<maxParticipants, env, gateway>>
vars == <<store, slots, ghost, config>>

---------------------------------------------------------------------------
(* Bounds of the model *)

MaxProcs == 2           \* handlers in flight together
MaxCount == 2           \* the write counters stop counting here
SmallQuiz == 1          \* maxParticipants of a quiz that two joins overfill
SeqQuiz == 2            \* maxParticipants of a quiz that can fill up and reconnect

MaxIncr == 3            \* incrementScore calls of one run
NegTime == 3            \* timeTaken values tried below 0
OverTime == 2           \* timeTaken values tried beyond the time limit

(* Program constants *)

QUIZ_SESSION_TTL == 3600
MaxQuestionCount == 50
TimeLimit == 30

Procs == 1..MaxProcs
QuizIds == {"A", "B"}
Users == {"u1", "u2"}
Clients == {"c1"}
Sockets == {"s1", "s2"}

WAITING == "waiting"
IN_PROGRESS == "in_progress"
COMPLETED == "completed"

Null == [null |-> TRUE]
NoScore == -1
NoIndex == -1

(***************************************************************************)
(* QUESTION_BANK: id, correct option, difficulty tier and base points of   *)
(* each of the twenty questions (text, options and category play no role). *)
(***************************************************************************)
QUESTION_BANK ==
    << [id |-> "q1", correctAnswer |-> "Joyful", difficulty |-> "easy", points |-> 10],
       [id |-> "q2", correctAnswer |-> "Large", difficulty |-> "easy", points |-> 10],
       [id |-> "q3", correctAnswer |-> "Cold", difficulty |-> "easy", points |-> 10],
       [id |-> "q4", correctAnswer |-> "To consume food", difficulty |-> "easy", points |-> 10],
       [id |-> "q5", correctAnswer |-> "Friend", difficulty |-> "easy", points |-> 10],
       [id |-> "q6", correctAnswer |-> "Having strong desire to succeed", difficulty |-> "medium", points |-> 15],
       [id |-> "q7", correctAnswer |-> "Show", difficulty |-> "medium", points |-> 15],
       [id |-> "q8", correctAnswer |-> "Unwilling", difficulty |-> "medium", points |-> 15],
       [id |-> "q9", correctAnswer |-> "Compelling", difficulty |-> "medium", points |-> 15],
       [id |-> "q10", correctAnswer |-> "To delay or postpone", difficulty |-> "medium", points |-> 15],
       [id |-> "q11", correctAnswer |-> "Lasting for a very short time", difficulty |-> "hard", points |-> 20],
       [id |-> "q12", correctAnswer |-> "Omnipresent", difficulty |-> "hard", points |-> 20],
       [id |-> "q13", correctAnswer |-> "Understood by few; specialized", difficulty |-> "hard", points |-> 20],
       [id |-> "q14", correctAnswer |-> "To make better", difficulty |-> "hard", points |-> 20],
       [id |-> "q15", correctAnswer |-> "A person who flatters to gain advantage", difficulty |-> "hard", points |-> 20],
       [id |-> "q16", correctAnswer |-> "Having keen insight", difficulty |-> "hard", points |-> 20],
       [id |-> "q17", correctAnswer |-> "Confuse", difficulty |-> "hard", points |-> 20],
       [id |-> "q18", correctAnswer |-> "Generous and forgiving", difficulty |-> "hard", points |-> 20],
       [id |-> "q19", correctAnswer |-> "A solution for all problems", difficulty |-> "hard", points |-> 20],
       [id |-> "q20", correctAnswer |-> "Stubbornly resistant to authority", difficulty |-> "hard", points |-> 20] >>

BankIds == {QUESTION_BANK[i].id : i \in DOMAIN QUESTION_BANK}

(***************************************************************************)
(* Inputs of the calls.  Question ids: the two questions of a session, a   *)
(* bank question outside the session and an id the bank does not hold.     *)
(* Answer texts: the correct option of q1 in another case and with blanks  *)
(* around it, and the correct option of q6 verbatim.                       *)
(***************************************************************************)
QuestionArgs == {"q1", "q6", "q11", "invalid"}
AnswerTexts == {" joyful ", "Having strong desire to succeed"}
TimesTaken == {0, 30}
QuestionCounts == {2}
Shuffles == {0, 1}

Increments == {10, 15}
Limits == {1, 10}
Counts == 0..MaxQuestionCount
TimesAll == (0 - NegTime)..(TimeLimit + OverTime)

getQuestionById(id) ==
    IF id \in BankIds
    THEN QUESTION_BANK[CHOOSE i \in DOMAIN QUESTION_BANK : QUESTION_BANK[i].id = id]
    ELSE Null

(* s.toLowerCase().trim(), on the texts the model uses: the bank's options  *)
(* stay distinct under it, so only the variant spellings are folded.        *)
lowerTrim(s) ==
    CASE s = " joyful " -> "joyful"
      [] s = "Joyful" -> "joyful"
      [] OTHER -> s

validateAnswer(questionId, answer) ==
    LET question == getQuestionById(questionId)
    IN  IF question = Null THEN FALSE
        ELSE lowerTrim(question.correctAnswer) = lowerTrim(answer)

(* the formula as it would be with Math.floor written for Math.round *)
calculatePoints_Floor(questionId, isCorrect, timeTaken, timeLimit) ==
    IF ~isCorrect THEN 0
    ELSE LET question == getQuestionById(questionId)
         IN  IF question = Null THEN 0
             ELSE IF timeTaken < timeLimit
                  THEN (question.points * (3 * timeLimit - timeTaken))
                          \div (2 * timeLimit)
                  ELSE question.points

(* Math.round(points * (1 + ((timeLimit - timeTaken) / timeLimit) * 0.5)),  *)
(* Math.round rounding a half upwards.                                      *)
calculatePoints(questionId, isCorrect, timeTaken, timeLimit) ==
    IF ~isCorrect THEN 0
    ELSE LET question == getQuestionById(questionId)
         IN  IF question = Null THEN 0
             ELSE IF timeTaken < timeLimit
                  THEN (question.points * (3 * timeLimit - timeTaken) + timeLimit)
                          \div (2 * timeLimit)
                  ELSE question.points

getQuestionsByDifficulty(difficulty) ==
    SelectSeq(QUESTION_BANK, LAMBDA q : q.difficulty = difficulty)

(* Array.prototype.slice(0, end): a negative end counts from the back.      *)
slice(s, end) ==
    LET e == IF end < 0 THEN Len(s) + end ELSE end
        n == IF e < 0 THEN 0 ELSE IF e > Len(s) THEN Len(s) ELSE e
    IN  SubSeq(s, 1, n)

reverse(s) == [i \in 1..Len(s) |-> s[Len(s) + 1 - i]]

(* sort(() => 0.5 - Math.random()) yields some permutation; the model takes *)
(* the order as it stands (r = 0) or reversed (r = 1).                      *)
shuffle(s, r) == IF r = 0 THEN s ELSE reverse(s)

(* the tier target as it would be with Math.floor *)
floor40(count) == (2 * count) \div 5

(* Math.ceil(count * 0.4) *)
ceil40(count) == (2 * count + 4) \div 5

getBalancedQuestions(count, r) ==
    LET easyCount == ceil40(count)
        mediumCount == ceil40(count)
        hardCount == count - easyCount - mediumCount
        selectedEasy == slice(getQuestionsByDifficulty("easy"), easyCount)
        selectedMedium == slice(getQuestionsByDifficulty("medium"), mediumCount)
        selectedHard == slice(getQuestionsByDifficulty("hard"), hardCount)
    IN  shuffle(selectedEasy \o selectedMedium \o selectedHard, r)

---------------------------------------------------------------------------
(* RedisService: reads *)

getQuizSession(quizId) == session[quizId]

getParticipantCount(quizId) == Cardinality(participants[quizId])

getParticipant(quizId, userId) == participant[quizId][userId]

(* zscore: `score ? parseFloat(score) : 0` *)
getScore(quizId, userId) ==
    IF scores[quizId][userId] = NoScore THEN 0 ELSE scores[quizId][userId]

UserOrder(u) == IF u = "u1" THEN 1 ELSE 2

(* zrevrank: members by descending score; Redis orders equal scores by the  *)
(* member string, so the reverse range puts the greater string first.       *)
Ahead(quizId, v, u) ==
    /\ scores[quizId][v] # NoScore
    /\ \/ scores[quizId][v] > scores[quizId][u]
       \/ scores[quizId][v] = scores[quizId][u] /\ UserOrder(v) > UserOrder(u)

getRank(quizId, userId) ==
    IF scores[quizId][userId] = NoScore THEN Null
    ELSE [rank |-> Cardinality({v \in Users : Ahead(quizId, v, userId)})]

(* `(await getRank(...)) || 0` *)
rankOrZero(r) == IF r = Null THEN 0 ELSE r.rank

getAnswer(quizId, userId, questionId) == answers[quizId][userId][questionId]

(* `index ? parseInt(index, 10) : 0` *)
getCurrentQuestionIndex(quizId) ==
    IF currentQuestion[quizId] = NoIndex THEN 0 ELSE currentQuestion[quizId]

---------------------------------------------------------------------------
(* Handler slots *)

NoCall == [op |-> "none", quizId |-> "-", userId |-> "-", socketId |-> "-",
           questionId |-> "-", answer |-> "-", timeTaken |-> 0,
           limit |-> 0, count |-> 0, gateway |-> FALSE]

NoLocals == [session |-> Null, data |-> Null, ttl |-> 0, index |-> 0,
             isCorrect |-> FALSE, earnedPoints |-> 0, newScore |-> 0]

Snapshot == [session |-> session, sessionTTL |-> sessionTTL,
             participants |-> participants, participant |-> participant,
             scores |-> scores, answers |-> answers,
             currentQuestion |-> currentQuestion]

InFlight == {p \in Procs : pc[p] # "idle"}

(* A call may begin in a free slot while fewer than maxInFlight are running. *)
CanBegin(p) ==
    /\ pc[p] = "idle"
    /\ p <= env.procs
    /\ Cardinality(InFlight) < env.procs

Keep(s, n) == IF Len(s) <= n THEN s ELSE SubSeq(s, Len(s) - n + 1, Len(s))

(* The call c, begun in this step, goes on at the await `next`. *)
Begin(p, c, next, locals) ==
    /\ pc' = [pc EXCEPT ![p] = next]
    /\ call' = [call EXCEPT ![p] = c]
    /\ loc' = [loc EXCEPT ![p] = locals]
    /\ pre' = IF env.hist > 0 THEN Snapshot ELSE pre
    /\ calls' = calls

(* The call c, begun in this step, ends in it with result r. *)
BeginReturn(p, c, r) ==
    /\ UNCHANGED slots
    /\ pre' = IF env.hist > 0 THEN Snapshot ELSE pre
    /\ calls' = Keep(Append(calls, [call |-> c, result |-> r]), env.hist)

Goto(p, next, locals) ==
    /\ pc' = [pc EXCEPT ![p] = next]
    /\ loc' = [loc EXCEPT ![p] = locals]
    /\ UNCHANGED <<call, pre, calls>>

(* A method returns or throws.  handleJoinQuiz goes on after a joinQuiz     *)
(* that returned; an exception ends it in its catch block.                  *)
Return(p, r) ==
    /\ IF call[p].op = "joinQuiz" /\ call[p].gateway /\ r.error = "none"
       THEN /\ pc' = [pc EXCEPT ![p] = "handleJoinQuiz_maps"]
            /\ UNCHANGED <<call, loc>>
       ELSE /\ pc' = [pc EXCEPT ![p] = "idle"]
            /\ call' = [call EXCEPT ![p] = NoCall]
            /\ loc' = [loc EXCEPT ![p] = NoLocals]
    /\ pre' = pre
    /\ calls' = Keep(Append(calls, [call |-> call[p], result |-> r]), env.hist)

Ok(v) == [error |-> "none", message |-> "", value |-> v]
NotFoundException(msg) == [error |-> "NotFound", message |-> msg, value |-> Null]
BadRequestException(msg) == [error |-> "BadRequest", message |-> msg, value |-> Null]

Bump(n) == IF n < MaxCount THEN n + 1 ELSE MaxCount

---------------------------------------------------------------------------
(* QuizService.createQuiz *)

NewSession(questions) ==
    [status |-> WAITING, questions |-> questions, currentQuestionIndex |-> 0,
     startTime |-> FALSE, endTime |-> FALSE]

(* generateQuizId draws the id at random, so it may be the id of a stored   *)
(* session; createQuizSession is one SETEX.  The write counters count per   *)
(* created session.                                                         *)
createQuiz(p) ==
    /\ CanBegin(p)
    /\ \E quizId \in env.quizIds, questionCount \in QuestionCounts, r \in env.shuffles :
         LET quizSession == NewSession(getBalancedQuestions(questionCount, r))
         IN  /\ session' = [session EXCEPT ![quizId] = quizSession]
             /\ sessionTTL' = [sessionTTL EXCEPT ![quizId] = QUIZ_SESSION_TTL]
             /\ BeginReturn(p, [NoCall EXCEPT !.op = "createQuiz", !.quizId = quizId],
                            Ok(quizSession))
             /\ startWrites' = [startWrites EXCEPT ![quizId] = 0]
             /\ completeWrites' = [completeWrites EXCEPT ![quizId] = 0]
    /\ UNCHANGED <<participants, participant, scores, answers, currentQuestion>>
    /\ UNCHANGED <<scoreEvents, config>>

---------------------------------------------------------------------------
(* QuizService.joinQuiz *)

NewParticipant(socketId) ==
    [socketId |-> socketId, score |-> 0, answersSubmitted |-> 0]

joinQuiz(p) ==
    /\ CanBegin(p)
    /\ \E quizId \in env.quizIds, userId \in env.users, socketId \in env.sockets :
         LET c == [NoCall EXCEPT !.op = "joinQuiz", !.quizId = quizId,
                                 !.userId = userId, !.socketId = socketId]
             s == getQuizSession(quizId)
         IN  IF s = Null
             THEN BeginReturn(p, c, NotFoundException("Quiz session not found"))
             ELSE IF s.status = COMPLETED
             THEN BeginReturn(p, c, BadRequestException("Quiz has already completed"))
             ELSE Begin(p, c, "join_getParticipantCount",
                        [NoLocals EXCEPT !.session = s])
    /\ UNCHANGED <<store, scoreEvents, startWrites, completeWrites, config>>

(* the limit check as it would be with > written for >= *)
joinQuiz_getParticipantCount_OffByOne(p) ==
    /\ pc[p] = "join_getParticipantCount"
    /\ IF getParticipantCount(call[p].quizId) > maxParticipants
       THEN Return(p, BadRequestException("Quiz is full"))
       ELSE Goto(p, "join_getParticipant", loc[p])
    /\ UNCHANGED <<store, scoreEvents, startWrites, completeWrites, config>>

joinQuiz_getParticipantCount(p) ==
    /\ pc[p] = "join_getParticipantCount"
    /\ IF getParticipantCount(call[p].quizId) >= maxParticipants
       THEN Return(p, BadRequestException("Quiz is full"))
       ELSE Goto(p, "join_getParticipant", loc[p])
    /\ UNCHANGED <<store, scoreEvents, startWrites, completeWrites, config>>

joinQuiz_getParticipant(p) ==
    /\ pc[p] = "join_getParticipant"
    /\ LET existingParticipant == getParticipant(call[p].quizId, call[p].userId)
       IN  IF existingParticipant # Null
           THEN Goto(p, "join_reconnect_sadd",
                     [loc[p] EXCEPT !.data =
                        [existingParticipant EXCEPT !.socketId = call[p].socketId]])
           ELSE Goto(p, "join_sadd",
                     [loc[p] EXCEPT !.data = NewParticipant(call[p].socketId)])
    /\ UNCHANGED <<store, scoreEvents, startWrites, completeWrites, config>>

(* addParticipant is two commands: SADD to the set, then SET of the data.  *)
addParticipant_sadd(p, next) ==
    /\ participants' = [participants EXCEPT
                          ![call[p].quizId] = @ \cup {call[p].userId}]
    /\ Goto(p, next, loc[p])
    /\ UNCHANGED <<session, sessionTTL, participant, scores, answers, currentQuestion>>
    /\ UNCHANGED <<scoreEvents, startWrites, completeWrites, config>>

addParticipant_set(p) ==
    /\ participant' = [participant EXCEPT
                         ![call[p].quizId][call[p].userId] = loc[p].data]
    /\ UNCHANGED <<session, sessionTTL, participants, scores, answers, currentQuestion>>
    /\ UNCHANGED <<scoreEvents, startWrites, completeWrites, config>>

(* reconnection: only the socket id of the stored record is replaced *)
joinQuiz_reconnect_sadd(p) ==
    /\ pc[p] = "join_reconnect_sadd"
    /\ addParticipant_sadd(p, "join_reconnect_set")

joinQuiz_reconnect_set(p) ==
    /\ pc[p] = "join_reconnect_set"
    /\ addParticipant_set(p)
    /\ Return(p, Ok(loc[p].session))

joinQuiz_sadd(p) ==
    /\ pc[p] = "join_sadd"
    /\ addParticipant_sadd(p, "join_set")

joinQuiz_set(p) ==
    /\ pc[p] = "join_set"
    /\ addParticipant_set(p)
    /\ Goto(p, "join_updateScore", loc[p])

(* the end of a first join as it would be without the score registration *)
joinQuiz_updateScore_Skipped(p) ==
    /\ pc[p] = "join_updateScore"
    /\ Return(p, Ok(loc[p].session))
    /\ UNCHANGED <<store, scoreEvents, startWrites, completeWrites, config>>

(* updateScore(quizId, userId, 0): ZADD sets the member's score to 0 *)
joinQuiz_updateScore(p) ==
    /\ pc[p] = "join_updateScore"
    /\ scores' = [scores EXCEPT ![call[p].quizId][call[p].userId] = 0]
    /\ Return(p, Ok(loc[p].session))
    /\ UNCHANGED <<session, sessionTTL, participants, participant, answers,
                   currentQuestion>>
    /\ UNCHANGED <<scoreEvents, startWrites, completeWrites, config>>

---------------------------------------------------------------------------
(* RedisService.updateQuizSession: TTL, then SETEX with the remaining       *)
(* lifetime, or a plain SET when TTL reports none (-1) or no key (-2).      *)

updateQuizSession_ttl(p, next) ==
    /\ Goto(p, next, [loc[p] EXCEPT !.ttl = sessionTTL[call[p].quizId]])
    /\ UNCHANGED <<store, scoreEvents, startWrites, completeWrites, config>>

updateQuizSession_set(p) ==
    /\ session' = [session EXCEPT ![call[p].quizId] = loc[p].session]
    /\ sessionTTL' = [sessionTTL EXCEPT ![call[p].quizId] =
                         IF loc[p].ttl > 0 THEN loc[p].ttl ELSE -1]
    /\ UNCHANGED <<participants, participant, scores, answers, currentQuestion>>
    /\ UNCHANGED <<scoreEvents, config>>

---------------------------------------------------------------------------
(* QuizService.startQuiz *)

startQuiz(p) ==
    /\ CanBegin(p)
    /\ \E quizId \in env.quizIds :
         LET c == [NoCall EXCEPT !.op = "startQuiz", !.quizId = quizId]
             s == getQuizSession(quizId)
         IN  IF s = Null
             THEN BeginReturn(p, c, NotFoundException("Quiz session not found"))
             ELSE IF s.status # WAITING
             THEN BeginReturn(p, c,
                    BadRequestException("Quiz has already started or completed"))
             ELSE Begin(p, c, "start_getParticipantCount",
                        [NoLocals EXCEPT !.session = s])
    /\ UNCHANGED <<store, scoreEvents, startWrites, completeWrites, config>>

(* the step as it would be without the check of the participant count *)
startQuiz_getParticipantCount_NoCheck(p) ==
    /\ pc[p] = "start_getParticipantCount"
    /\ Goto(p, "start_ttl",
            [loc[p] EXCEPT !.session =
               [@ EXCEPT !.status = IN_PROGRESS, !.startTime = TRUE,
                         !.currentQuestionIndex = 0]])
    /\ UNCHANGED <<store, scoreEvents, startWrites, completeWrites, config>>

startQuiz_getParticipantCount(p) ==
    /\ pc[p] = "start_getParticipantCount"
    /\ IF getParticipantCount(call[p].quizId) = 0
       THEN Return(p, BadRequestException("Cannot start quiz with no participants"))
       ELSE Goto(p, "start_ttl",
                 [loc[p] EXCEPT !.session =
                    [@ EXCEPT !.status = IN_PROGRESS, !.startTime = TRUE,
                              !.currentQuestionIndex = 0]])
    /\ UNCHANGED <<store, scoreEvents, startWrites, completeWrites, config>>

startQuiz_updateQuizSession_ttl(p) ==
    /\ pc[p] = "start_ttl"
    /\ updateQuizSession_ttl(p, "start_set")

startQuiz_updateQuizSession_set(p) ==
    /\ pc[p] = "start_set"
    /\ updateQuizSession_set(p)
    /\ startWrites' = [startWrites EXCEPT ![call[p].quizId] = Bump(@)]
    /\ Goto(p, "start_setCurrentQuestion", loc[p])
    /\ UNCHANGED completeWrites

(* the index write as it would be with a key that leaves out the quiz id *)
startQuiz_setCurrentQuestion_SharedKey(p) ==
    /\ pc[p] = "start_setCurrentQuestion"
    /\ currentQuestion' = [q \in QuizIds |-> 0]
    /\ Return(p, Ok(loc[p].session))
    /\ UNCHANGED <<session, sessionTTL, participants, participant, scores, answers>>
    /\ UNCHANGED <<scoreEvents, startWrites, completeWrites, config>>

startQuiz_setCurrentQuestion(p) ==
    /\ pc[p] = "start_setCurrentQuestion"
    /\ currentQuestion' = [currentQuestion EXCEPT ![call[p].quizId] = 0]
    /\ Return(p, Ok(loc[p].session))
    /\ UNCHANGED <<session, sessionTTL, participants, participant, scores, answers>>
    /\ UNCHANGED <<scoreEvents, startWrites, completeWrites, config>>

---------------------------------------------------------------------------
(* QuizService.nextQuestion, with the completeQuiz and getCurrentQuestion   *)
(* it calls                                                                 *)

(* the question as it would be returned with the correct answer left in *)
Unsanitized(question) == question

(* the question as returned to callers: `correctAnswer: ''` *)
Sanitized(question) == [question EXCEPT !.correctAnswer = ""]

nextQuestion(p) ==
    /\ CanBegin(p)
    /\ \E quizId \in env.quizIds :
         LET c == [NoCall EXCEPT !.op = "nextQuestion", !.quizId = quizId]
             s == getQuizSession(quizId)
         IN  IF s = Null
             THEN BeginReturn(p, c, NotFoundException("Quiz session not found"))
             ELSE Begin(p, c, "next_getCurrentQuestion",
                        [NoLocals EXCEPT !.session = s])
    /\ UNCHANGED <<store, scoreEvents, startWrites, completeWrites, config>>

(* the step as it would be with > written for >= in the end-of-quiz test *)
nextQuestion_getCurrentQuestion_PastEnd(p) ==
    /\ pc[p] = "next_getCurrentQuestion"
    /\ LET currentIndex == getCurrentQuestionIndex(call[p].quizId)
           nextIndex == currentIndex + 1
       IN  IF nextIndex > Len(loc[p].session.questions)
           THEN Goto(p, "complete_getQuizSession", loc[p])
           ELSE Goto(p, "next_setCurrentQuestion",
                     [loc[p] EXCEPT !.index = nextIndex,
                                    !.session.currentQuestionIndex = nextIndex])
    /\ UNCHANGED <<store, scoreEvents, startWrites, completeWrites, config>>

nextQuestion_getCurrentQuestion(p) ==
    /\ pc[p] = "next_getCurrentQuestion"
    /\ LET currentIndex == getCurrentQuestionIndex(call[p].quizId)
           nextIndex == currentIndex + 1
       IN  IF nextIndex >= Len(loc[p].session.questions)
           THEN Goto(p, "complete_getQuizSession", loc[p])
           ELSE Goto(p, "next_setCurrentQuestion",
                     [loc[p] EXCEPT !.index = nextIndex,
                                    !.session.currentQuestionIndex = nextIndex])
    /\ UNCHANGED <<store, scoreEvents, startWrites, completeWrites, config>>

nextQuestion_setCurrentQuestion(p) ==
    /\ pc[p] = "next_setCurrentQuestion"
    /\ currentQuestion' = [currentQuestion EXCEPT ![call[p].quizId] = loc[p].index]
    /\ Goto(p, "next_ttl", loc[p])
    /\ UNCHANGED <<session, sessionTTL, participants, participant, scores, answers>>
    /\ UNCHANGED <<scoreEvents, startWrites, completeWrites, config>>

nextQuestion_updateQuizSession_ttl(p) ==
    /\ pc[p] = "next_ttl"
    /\ updateQuizSession_ttl(p, "next_set")

nextQuestion_updateQuizSession_set(p) ==
    /\ pc[p] = "next_set"
    /\ updateQuizSession_set(p)
    /\ Goto(p, "current_getQuizSession", loc[p])
    /\ UNCHANGED <<startWrites, completeWrites>>

(* getCurrentQuestion, the tail call of nextQuestion *)
getCurrentQuestion_getQuizSession(p) ==
    /\ pc[p] = "current_getQuizSession"
    /\ LET s == getQuizSession(call[p].quizId)
       IN  IF s = Null
           THEN Return(p, NotFoundException("Quiz session not found"))
           ELSE Goto(p, "current_getCurrentQuestion", [loc[p] EXCEPT !.session = s])
    /\ UNCHANGED <<store, scoreEvents, startWrites, completeWrites, config>>

getCurrentQuestion_getCurrentQuestion(p) ==
    /\ pc[p] = "current_getCurrentQuestion"
    /\ LET currentIndex == getCurrentQuestionIndex(call[p].quizId)
       IN  IF currentIndex >= Len(loc[p].session.questions)
           THEN Return(p, BadRequestException("No more questions available"))
           ELSE Return(p, Ok(Sanitized(loc[p].session.questions[currentIndex + 1])))
    /\ UNCHANGED <<store, scoreEvents, startWrites, completeWrites, config>>

(* getCurrentQuestion called on its own, as the gateway does after startQuiz *)
getCurrentQuestion(p) ==
    /\ CanBegin(p)
    /\ \E quizId \in env.quizIds :
         LET c == [NoCall EXCEPT !.op = "getCurrentQuestion", !.quizId = quizId]
             s == getQuizSession(quizId)
         IN  IF s = Null
             THEN BeginReturn(p, c, NotFoundException("Quiz session not found"))
             ELSE Begin(p, c, "current_getCurrentQuestion",
                        [NoLocals EXCEPT !.session = s])
    /\ UNCHANGED <<store, scoreEvents, startWrites, completeWrites, config>>

(* completeQuiz, called by nextQuestion past the last question *)
completeQuiz_getQuizSession(p) ==
    /\ pc[p] = "complete_getQuizSession"
    /\ LET s == getQuizSession(call[p].quizId)
       IN  IF s = Null
           THEN Return(p, NotFoundException("Quiz session not found"))
           ELSE Goto(p, "complete_ttl",
                     [loc[p] EXCEPT !.session =
                        [s EXCEPT !.status = COMPLETED, !.endTime = TRUE]])
    /\ UNCHANGED <<store, scoreEvents, startWrites, completeWrites, config>>

completeQuiz_updateQuizSession_ttl(p) ==
    /\ pc[p] = "complete_ttl"
    /\ updateQuizSession_ttl(p, "complete_set")

(* completeQuiz returns the session; nextQuestion returns null after it *)
completeQuiz_updateQuizSession_set(p) ==
    /\ pc[p] = "complete_set"
    /\ updateQuizSession_set(p)
    /\ completeWrites' = [completeWrites EXCEPT ![call[p].quizId] = Bump(@)]
    /\ Return(p, Ok(IF call[p].op = "completeQuiz" THEN loc[p].session ELSE Null))
    /\ UNCHANGED startWrites

(* completeQuiz called on its own *)
completeQuiz(p) ==
    /\ CanBegin(p)
    /\ \E quizId \in env.quizIds :
         LET c == [NoCall EXCEPT !.op = "completeQuiz", !.quizId = quizId]
             s == getQuizSession(quizId)
         IN  IF s = Null
             THEN BeginReturn(p, c, NotFoundException("Quiz session not found"))
             ELSE Begin(p, c, "complete_ttl",
                        [NoLocals EXCEPT !.session =
                           [s EXCEPT !.status = COMPLETED, !.endTime = TRUE]])
    /\ UNCHANGED <<store, scoreEvents, startWrites, completeWrites, config>>

---------------------------------------------------------------------------
(* QuizService.submitAnswer *)

TIME_BONUS_ENABLED == TRUE

AnswerResult(correct, correctAnswer, earnedPoints, currentScore, rank) ==
    [correct |-> correct, correctAnswer |-> correctAnswer,
     earnedPoints |-> earnedPoints, currentScore |-> currentScore, rank |-> rank]

(* the call as it would be without the check of the session status *)
submitAnswer_NoStatusCheck(p) ==
    /\ CanBegin(p)
    /\ \E quizId \in env.quizIds, userId \in env.users,
          questionId \in env.questionIds, answer \in env.answers,
          timeTaken \in env.times :
         LET c == [NoCall EXCEPT !.op = "submitAnswer", !.quizId = quizId,
                                 !.userId = userId, !.questionId = questionId,
                                 !.answer = answer, !.timeTaken = timeTaken]
             s == getQuizSession(quizId)
         IN  IF s = Null
             THEN BeginReturn(p, c, NotFoundException("Quiz session not found"))
             ELSE Begin(p, c, "submit_getAnswer", [NoLocals EXCEPT !.session = s])
    /\ UNCHANGED <<store, scoreEvents, startWrites, completeWrites, config>>

submitAnswer(p) ==
    /\ CanBegin(p)
    /\ \E quizId \in env.quizIds, userId \in env.users,
          questionId \in env.questionIds, answer \in env.answers,
          timeTaken \in env.times :
         LET c == [NoCall EXCEPT !.op = "submitAnswer", !.quizId = quizId,
                                 !.userId = userId, !.questionId = questionId,
                                 !.answer = answer, !.timeTaken = timeTaken]
             s == getQuizSession(quizId)
         IN  IF s = Null
             THEN BeginReturn(p, c, NotFoundException("Quiz session not found"))
             ELSE IF s.status # IN_PROGRESS
             THEN BeginReturn(p, c, BadRequestException("Quiz is not in progress"))
             ELSE Begin(p, c, "submit_getAnswer", [NoLocals EXCEPT !.session = s])
    /\ UNCHANGED <<store, scoreEvents, startWrites, completeWrites, config>>

(* the idempotency check as it would be with the answer recorded before the *)
(* question is looked up                                                    *)
submitAnswer_getAnswer_RecordFirst(p) ==
    /\ pc[p] = "submit_getAnswer"
    /\ LET c == call[p]
           existingAnswer == getAnswer(c.quizId, c.userId, c.questionId)
           isCorrect == validateAnswer(c.questionId, c.answer)
           question == getQuestionById(c.questionId)
           earnedPoints == calculatePoints(c.questionId, isCorrect, c.timeTaken, TimeLimit)
       IN  IF existingAnswer # Null
           THEN /\ Goto(p, "submit_cached_getScore", [loc[p] EXCEPT !.data = existingAnswer])
                /\ UNCHANGED answers
           ELSE IF question = Null
           THEN /\ answers' = [answers EXCEPT ![c.quizId][c.userId][c.questionId] =
                                 [answer |-> c.answer, correct |-> FALSE,
                                  correctAnswer |-> "", earnedPoints |-> 0,
                                  timeTaken |-> c.timeTaken]]
                /\ Return(p, NotFoundException("Question not found"))
           ELSE /\ Goto(p, "submit_score",
                        [loc[p] EXCEPT !.isCorrect = isCorrect,
                                       !.earnedPoints = earnedPoints])
                /\ UNCHANGED answers
    /\ UNCHANGED <<session, sessionTTL, participants, participant, scores,
                   currentQuestion>>
    /\ UNCHANGED <<scoreEvents, startWrites, completeWrites, config>>

(* the idempotency check; on a miss the answer is validated and priced      *)
(* before the next await                                                    *)
submitAnswer_getAnswer(p) ==
    /\ pc[p] = "submit_getAnswer"
    /\ LET c == call[p]
           existingAnswer == getAnswer(c.quizId, c.userId, c.questionId)
           isCorrect == validateAnswer(c.questionId, c.answer)
           question == getQuestionById(c.questionId)
           earnedPoints ==
               IF TIME_BONUS_ENABLED
               THEN calculatePoints(c.questionId, isCorrect, c.timeTaken, TimeLimit)
               ELSE IF isCorrect THEN question.points ELSE 0
       IN  IF existingAnswer # Null
           THEN Goto(p, "submit_cached_getScore", [loc[p] EXCEPT !.data = existingAnswer])
           ELSE IF question = Null
           THEN Return(p, NotFoundException("Question not found"))
           ELSE Goto(p, "submit_score",
                     [loc[p] EXCEPT !.isCorrect = isCorrect,
                                    !.earnedPoints = earnedPoints])
    /\ UNCHANGED <<store, scoreEvents, startWrites, completeWrites, config>>

submitAnswer_cached_getScore(p) ==
    /\ pc[p] = "submit_cached_getScore"
    /\ Goto(p, "submit_cached_getRank",
            [loc[p] EXCEPT !.newScore = getScore(call[p].quizId, call[p].userId)])
    /\ UNCHANGED <<store, scoreEvents, startWrites, completeWrites, config>>

(* the cached result: `rank: (await getRank(...)) || 0` *)
submitAnswer_cached_getRank(p) ==
    /\ pc[p] = "submit_cached_getRank"
    /\ LET existingAnswer == loc[p].data
       IN  Return(p, Ok(AnswerResult(existingAnswer.correct,
                                     existingAnswer.correctAnswer,
                                     existingAnswer.earnedPoints,
                                     loc[p].newScore,
                                     rankOrZero(getRank(call[p].quizId, call[p].userId)))))
    /\ UNCHANGED <<store, scoreEvents, startWrites, completeWrites, config>>

(* incrementScore is one ZINCRBY (an absent member counts from 0); with no  *)
(* points earned the score is only read                                     *)
submitAnswer_score(p) ==
    /\ pc[p] = "submit_score"
    /\ LET c == call[p]
           newScore == getScore(c.quizId, c.userId) + loc[p].earnedPoints
       IN  IF loc[p].earnedPoints > 0
           THEN /\ scores' = [scores EXCEPT ![c.quizId][c.userId] = newScore]
                /\ scoreEvents' = [scoreEvents EXCEPT
                                     ![c.quizId][c.userId][c.questionId] = @ + 1]
                /\ Goto(p, "submit_storeAnswer", [loc[p] EXCEPT !.newScore = newScore])
           ELSE /\ UNCHANGED <<scores, scoreEvents>>
                /\ Goto(p, "submit_storeAnswer",
                        [loc[p] EXCEPT !.newScore = getScore(c.quizId, c.userId)])
    /\ UNCHANGED <<session, sessionTTL, participants, participant, answers,
                   currentQuestion>>
    /\ UNCHANGED <<startWrites, completeWrites, config>>

(* storeAnswer is one HSET of the question's field *)
submitAnswer_storeAnswer(p) ==
    /\ pc[p] = "submit_storeAnswer"
    /\ LET c == call[p]
           question == getQuestionById(c.questionId)
       IN  answers' = [answers EXCEPT ![c.quizId][c.userId][c.questionId] =
                         [answer |-> c.answer, correct |-> loc[p].isCorrect,
                          correctAnswer |-> question.correctAnswer,
                          earnedPoints |-> loc[p].earnedPoints,
                          timeTaken |-> c.timeTaken]]
    /\ Goto(p, "submit_getParticipant", loc[p])
    /\ UNCHANGED <<session, sessionTTL, participants, participant, scores,
                   currentQuestion>>
    /\ UNCHANGED <<scoreEvents, startWrites, completeWrites, config>>

submitAnswer_getParticipant(p) ==
    /\ pc[p] = "submit_getParticipant"
    /\ LET data == getParticipant(call[p].quizId, call[p].userId)
       IN  IF data # Null
           THEN Goto(p, "submit_sadd",
                     [loc[p] EXCEPT !.data =
                        [data EXCEPT !.answersSubmitted = @ + 1,
                                     !.score = loc[p].newScore]])
           ELSE Goto(p, "submit_getRank", loc[p])
    /\ UNCHANGED <<store, scoreEvents, startWrites, completeWrites, config>>

submitAnswer_sadd(p) ==
    /\ pc[p] = "submit_sadd"
    /\ addParticipant_sadd(p, "submit_set")

submitAnswer_set(p) ==
    /\ pc[p] = "submit_set"
    /\ addParticipant_set(p)
    /\ Goto(p, "submit_getRank", loc[p])

(* the first-time result as it would be with the store's 0-based rank *)
submitAnswer_getRank_ZeroBased(p) ==
    /\ pc[p] = "submit_getRank"
    /\ LET c == call[p]
           rank == rankOrZero(getRank(c.quizId, c.userId))
       IN  Return(p, Ok(AnswerResult(loc[p].isCorrect,
                                     getQuestionById(c.questionId).correctAnswer,
                                     loc[p].earnedPoints, loc[p].newScore, rank)))
    /\ UNCHANGED <<store, scoreEvents, startWrites, completeWrites, config>>

(* the first-time result: `rank: rank + 1` *)
submitAnswer_getRank(p) ==
    /\ pc[p] = "submit_getRank"
    /\ LET c == call[p]
           rank == rankOrZero(getRank(c.quizId, c.userId))
       IN  Return(p, Ok(AnswerResult(loc[p].isCorrect,
                                     getQuestionById(c.questionId).correctAnswer,
                                     loc[p].earnedPoints, loc[p].newScore, rank + 1)))
    /\ UNCHANGED <<store, scoreEvents, startWrites, completeWrites, config>>

---------------------------------------------------------------------------
(* QuestionService.calculatePoints, called on its own *)

callCalculatePoints(p) ==
    /\ CanBegin(p)
    /\ \E questionId \in env.questionIds, isCorrect \in BOOLEAN,
          timeTaken \in env.times :
         BeginReturn(p, [op |-> "calculatePoints", questionId |-> questionId,
                         isCorrect |-> isCorrect, timeTaken |-> timeTaken,
                         timeLimit |-> TimeLimit],
                     Ok(calculatePoints(questionId, isCorrect, timeTaken, TimeLimit)))
    /\ UNCHANGED <<store, scoreEvents, startWrites, completeWrites, config>>

---------------------------------------------------------------------------
(* RedisService.incrementScore, called on its own: the ZINCRBY command is   *)
(* sent, the server executes it in one step and its reply resolves the      *)
(* call.  At most env.hist calls are made, so that `calls` keeps them all.  *)

incrementScore(p) ==
    /\ CanBegin(p)
    /\ Len(calls) + Cardinality(InFlight) < env.hist
    /\ \E quizId \in env.quizIds, userId \in env.users, increment \in Increments :
         Begin(p, [op |-> "incrementScore", quizId |-> quizId, userId |-> userId,
                   increment |-> increment],
               "incr_zincrby", NoLocals)
    /\ UNCHANGED <<store, scoreEvents, startWrites, completeWrites, config>>

(* the command as it would be if the client read the score when it sent     *)
(* the command and wrote the sum back later                                 *)
incrementScore_zincrby_Stale(p) ==
    /\ pc[p] = "incr_zincrby"
    /\ LET c == call[p]
           read == pre.scores[c.quizId][c.userId]
           newScore == (IF read = NoScore THEN 0 ELSE read) + c.increment
       IN  /\ scores' = [scores EXCEPT ![c.quizId][c.userId] = newScore]
           /\ Return(p, Ok(newScore))
    /\ UNCHANGED <<session, sessionTTL, participants, participant, answers,
                   currentQuestion>>
    /\ UNCHANGED <<scoreEvents, startWrites, completeWrites, config>>

incrementScore_zincrby(p) ==
    /\ pc[p] = "incr_zincrby"
    /\ LET c == call[p]
           newScore == getScore(c.quizId, c.userId) + c.increment
       IN  /\ scores' = [scores EXCEPT ![c.quizId][c.userId] = newScore]
           /\ Return(p, Ok(newScore))
    /\ UNCHANGED <<session, sessionTTL, participants, participant, answers,
                   currentQuestion>>
    /\ UNCHANGED <<scoreEvents, startWrites, completeWrites, config>>

---------------------------------------------------------------------------
(* QuestionService.getBalancedQuestions, called on its own *)

callGetBalancedQuestions(p) ==
    /\ CanBegin(p)
    /\ \E count \in Counts, r \in env.shuffles :
         BeginReturn(p, [NoCall EXCEPT !.op = "getBalancedQuestions", !.count = count],
                     Ok(getBalancedQuestions(count, r)))
    /\ UNCHANGED <<store, scoreEvents, startWrites, completeWrites, config>>

---------------------------------------------------------------------------
(* The lifetime that createQuizSession gave the session key with SETEX runs *)
(* out: the server deletes the key, at any moment between two commands.     *)

sessionExpires(quizId) ==
    /\ sessionTTL[quizId] > 0
    /\ session' = [session EXCEPT ![quizId] = Null]
    /\ sessionTTL' = [sessionTTL EXCEPT ![quizId] = -2]
    /\ UNCHANGED <<participants, participant, scores, answers, currentQuestion>>
    /\ UNCHANGED <<slots, ghost, config>>

---------------------------------------------------------------------------
(* QuizService.getLeaderboard and getFullLeaderboard *)

(* zrevrange 0 -1 WITHSCORES: the members by descending score, the order of *)
(* zrevrank; entry i has rank i.                                            *)
zrevrange(quizId) ==
    LET members == {u \in Users : scores[quizId][u] # NoScore}
    IN  [i \in 1..Cardinality(members) |->
           LET userId == CHOOSE u \in members : getRank(quizId, u).rank = i - 1
           IN  [userId |-> userId, username |-> "", score |-> scores[quizId][userId],
                rank |-> i]]

(* `Object.keys(answers).length` and `filter((a) => a.correct).length` over *)
(* the hash that getAllAnswers reads with one HGETALL                       *)
getAllAnswers(quizId, userId) == answers[quizId][userId]

totalAnswers(records) == Cardinality({k \in DOMAIN records : records[k] # Null})

correctAnswers(records) ==
    Cardinality({k \in DOMAIN records : records[k] # Null /\ records[k].correct})

getFullLeaderboard_NoSessionCheck(p) ==
    /\ CanBegin(p)
    /\ \E quizId \in env.quizIds :
         Begin(p, [NoCall EXCEPT !.op = "getFullLeaderboard", !.quizId = quizId],
               "board_zrevrange", NoLocals)
    /\ UNCHANGED <<store, scoreEvents, startWrites, completeWrites, config>>

getFullLeaderboard(p) ==
    /\ CanBegin(p)
    /\ \E quizId \in env.quizIds :
         LET c == [NoCall EXCEPT !.op = "getFullLeaderboard", !.quizId = quizId]
         IN  IF getQuizSession(quizId) = Null
             THEN BeginReturn(p, c, NotFoundException("Quiz session not found"))
             ELSE Begin(p, c, "board_zrevrange", NoLocals)
    /\ UNCHANGED <<store, scoreEvents, startWrites, completeWrites, config>>

getLeaderboard(p) ==
    /\ CanBegin(p)
    /\ \E quizId \in env.quizIds, limit \in Limits :
         LET c == [NoCall EXCEPT !.op = "getLeaderboard", !.quizId = quizId,
                                 !.limit = limit]
         IN  IF getQuizSession(quizId) = Null
             THEN BeginReturn(p, c, NotFoundException("Quiz session not found"))
             ELSE Begin(p, c, "board_zrevrange", NoLocals)
    /\ UNCHANGED <<store, scoreEvents, startWrites, completeWrites, config>>

(* the end of the leaderboard loop as it would be with `limit` ignored *)
board_done_NoLimit(p, leaderboard) ==
    IF call[p].op = "getFullLeaderboard"
    THEN Return(p, Ok(leaderboard))
    ELSE Goto(p, "board_getAllAnswers",
              [loc[p] EXCEPT !.data = leaderboard, !.index = 0])

(* the leaderboard is complete: getFullLeaderboard returns it,              *)
(* getLeaderboard goes on with `leaderboard.slice(0, limit)`                *)
board_done(p, leaderboard) ==
    IF call[p].op = "getFullLeaderboard"
    THEN Return(p, Ok(leaderboard))
    ELSE IF slice(leaderboard, call[p].limit) = <<>>
    THEN Return(p, Ok(<<>>))
    ELSE Goto(p, "board_getAllAnswers",
              [loc[p] EXCEPT !.data = slice(leaderboard, call[p].limit),
                             !.index = 0])

getFullLeaderboard_zrevrange(p) ==
    /\ pc[p] = "board_zrevrange"
    /\ LET results == zrevrange(call[p].quizId)
       IN  IF results = <<>>
           THEN board_done(p, results)
           ELSE Goto(p, "board_getParticipant",
                     [loc[p] EXCEPT !.data = results, !.index = 0])
    /\ UNCHANGED <<store, scoreEvents, startWrites, completeWrites, config>>

(* one turn of the loop: `participant?.username || 'Unknown'`; a caller's   *)
(* display name is written as its userId                                    *)
getFullLeaderboard_getParticipant(p) ==
    /\ pc[p] = "board_getParticipant"
    /\ LET i == loc[p].index + 1
           userId == loc[p].data[i].userId
           data == getParticipant(call[p].quizId, userId)
           username == IF data = Null THEN "Unknown" ELSE userId
           leaderboard == [loc[p].data EXCEPT ![i].username = username]
       IN  IF i < Len(leaderboard)
           THEN Goto(p, "board_getParticipant",
                     [loc[p] EXCEPT !.data = leaderboard, !.index = i])
           ELSE board_done(p, leaderboard)
    /\ UNCHANGED <<store, scoreEvents, startWrites, completeWrites, config>>

(* one getAllAnswers of the Promise.all over the sliced entries *)
getLeaderboard_getAllAnswers(p) ==
    /\ pc[p] = "board_getAllAnswers"
    /\ LET i == loc[p].index + 1
           entry == loc[p].data[i]
           records == getAllAnswers(call[p].quizId, entry.userId)
           enriched == [userId |-> entry.userId, username |-> entry.username,
                        score |-> entry.score, rank |-> entry.rank,
                        correctAnswers |-> correctAnswers(records),
                        totalAnswers |-> totalAnswers(records)]
           enrichedLeaderboard == [loc[p].data EXCEPT ![i] = enriched]
       IN  IF i < Len(enrichedLeaderboard)
           THEN Goto(p, "board_getAllAnswers",
                     [loc[p] EXCEPT !.data = enrichedLeaderboard, !.index = i])
           ELSE Return(p, Ok(enrichedLeaderboard))
    /\ UNCHANGED <<store, scoreEvents, startWrites, completeWrites, config>>

---------------------------------------------------------------------------
(* QuizGateway: the socket id of the connection is the user id.  The reads  *)
(* that only build the reply and the broadcasts are left out.               *)

(* a client opens a socket; the server gives it an id it has not used *)
handleConnection(id) ==
    /\ id \in env.users
    /\ clientOf[id] = "-"
    /\ \E c \in Clients :
         /\ \A s \in connections : clientOf[s] # c
         /\ clientOf' = [clientOf EXCEPT ![id] = c]
    /\ connections' = connections \cup {id}
    /\ UNCHANGED <<store, slots, ghost, maxParticipants, env, userSocketMap,
                   socketUserMap>>

(* the disconnect handler as it would be with QuizService.removeParticipant *)
(* called for the user of the socket                                        *)
handleDisconnect_RemoveParticipant(id) ==
    /\ id \in connections
    /\ connections' = connections \ {id}
    /\ LET userInfo == socketUserMap[id]
       IN  IF userInfo # Null
           THEN /\ userSocketMap' = [userSocketMap EXCEPT ![userInfo.userId] = Null]
                /\ socketUserMap' = [socketUserMap EXCEPT ![id] = Null]
                /\ participants' = [participants EXCEPT
                                      ![userInfo.quizId] = @ \ {userInfo.userId}]
                /\ participant' = [participant EXCEPT
                                     ![userInfo.quizId][userInfo.userId] = Null]
           ELSE UNCHANGED <<userSocketMap, socketUserMap, participants, participant>>
    /\ UNCHANGED <<session, sessionTTL, scores, answers, currentQuestion>>
    /\ UNCHANGED <<slots, ghost, maxParticipants, env, clientOf>>

handleDisconnect(id) ==
    /\ id \in connections
    /\ connections' = connections \ {id}
    /\ LET userInfo == socketUserMap[id]
       IN  IF userInfo # Null
           THEN /\ userSocketMap' = [userSocketMap EXCEPT ![userInfo.userId] = Null]
                /\ socketUserMap' = [socketUserMap EXCEPT ![id] = Null]
           ELSE UNCHANGED <<userSocketMap, socketUserMap>>
    /\ UNCHANGED <<store, slots, ghost, maxParticipants, env, clientOf>>

(* join_quiz: `userId = client.id`, then joinQuiz(quizId, userId, username, *)
(* client.id)                                                               *)
handleJoinQuiz(p) ==
    /\ CanBegin(p)
    /\ \E quizId \in env.quizIds, id \in connections :
         LET c == [NoCall EXCEPT !.op = "joinQuiz", !.quizId = quizId,
                                 !.userId = id, !.socketId = id,
                                 !.gateway = TRUE]
             s == getQuizSession(quizId)
         IN  IF s = Null
             THEN BeginReturn(p, c, NotFoundException("Quiz session not found"))
             ELSE IF s.status = COMPLETED
             THEN BeginReturn(p, c, BadRequestException("Quiz has already completed"))
             ELSE Begin(p, c, "join_getParticipantCount",
                        [NoLocals EXCEPT !.session = s])
    /\ UNCHANGED <<store, scoreEvents, startWrites, completeWrites, config>>

(* after joinQuiz returned: `userSocketMap.set`, `socketUserMap.set` *)
handleJoinQuiz_maps(p) ==
    /\ pc[p] = "handleJoinQuiz_maps"
    /\ userSocketMap' = [userSocketMap EXCEPT ![call[p].userId] = call[p].socketId]
    /\ socketUserMap' = [socketUserMap EXCEPT ![call[p].socketId] =
                           [userId |-> call[p].userId, quizId |-> call[p].quizId]]
    /\ pc' = [pc EXCEPT ![p] = "idle"]
    /\ call' = [call EXCEPT ![p] = NoCall]
    /\ loc' = [loc EXCEPT ![p] = NoLocals]
    /\ UNCHANGED <<store, ghost, maxParticipants, env, connections, clientOf>>

(* submit_answer: `userId = client.id` *)
handleSubmitAnswer(p) ==
    /\ CanBegin(p)
    /\ \E quizId \in env.quizIds, id \in connections,
          questionId \in env.questionIds, answer \in env.answers,
          timeTaken \in env.times :
         LET c == [NoCall EXCEPT !.op = "submitAnswer", !.quizId = quizId,
                                 !.userId = id, !.questionId = questionId,
                                 !.answer = answer, !.timeTaken = timeTaken,
                                 !.gateway = TRUE]
             s == getQuizSession(quizId)
         IN  IF s = Null
             THEN BeginReturn(p, c, NotFoundException("Quiz session not found"))
             ELSE IF s.status # IN_PROGRESS
             THEN BeginReturn(p, c, BadRequestException("Quiz is not in progress"))
             ELSE Begin(p, c, "submit_getAnswer", [NoLocals EXCEPT !.session = s])
    /\ UNCHANGED <<store, scoreEvents, startWrites, completeWrites, config>>

---------------------------------------------------------------------------
(* The system *)

InitStore ==
    /\ session = [q \in QuizIds |-> Null]
    /\ sessionTTL = [q \in QuizIds |-> -2]
    /\ participants = [q \in QuizIds |-> {}]
    /\ participant = [q \in QuizIds |-> [u \in Users |-> Null]]
    /\ scores = [q \in QuizIds |-> [u \in Users |-> NoScore]]
    /\ answers = [q \in QuizIds |-> [u \in Users |-> [k \in QuestionArgs |-> Null]]]
    /\ currentQuestion = [q \in QuizIds |-> NoIndex]

InitRest ==
    /\ pc = [p \in Procs |-> "idle"]
    /\ call = [p \in Procs |-> NoCall]
    /\ loc = [p \in Procs |-> NoLocals]
    /\ calls = <<>>
    /\ pre = Null
    /\ scoreEvents = [q \in QuizIds |-> [u \in Users |-> [k \in QuestionArgs |-> 0]]]
    /\ startWrites = [q \in QuizIds |-> 0]
    /\ completeWrites = [q \in QuizIds |-> 0]
    /\ connections = {}
    /\ clientOf = [id \in Users |-> "-"]
    /\ userSocketMap = [u \in Users |-> Null]
    /\ socketUserMap = [id \in Users |-> Null]

(* The callers of a run: how many handlers are in flight together (procs),  *)
(* how many completed calls are kept (hist), and the values they send.      *)
Env(n, h, qs, us, ss, ks, as, ts, rs) ==
    [procs |-> n, hist |-> h, quizIds |-> qs, users |-> us, sockets |-> ss,
     questionIds |-> ks, answers |-> as, times |-> ts, shuffles |-> rs]

(* handlers interleave, as on the event loop *)
Init ==
    /\ InitStore /\ InitRest
    /\ maxParticipants = SmallQuiz
    /\ env = Env(MaxProcs, 0, {"A"}, {"u1"}, {"s1"}, {"q1"}, {" joyful "}, {0}, {0})

InitCap ==
    /\ InitStore /\ InitRest
    /\ maxParticipants = SmallQuiz
    /\ env = Env(MaxProcs, 0, {"A"}, Users, {"s1"}, {}, {}, {}, {0})

(* one call at a time, the results of the last two kept *)
InitIdem ==
    /\ InitStore /\ InitRest
    /\ maxParticipants = SeqQuiz
    /\ env = Env(1, 2, {"A"}, Users, {"s1"}, {"q1"}, AnswerTexts, {0}, {0})

(* one call at a time, its result and the store before it kept *)
InitSeq ==
    /\ InitStore /\ InitRest
    /\ maxParticipants = SeqQuiz
    /\ env = Env(1, 1, {"A"}, Users, {"s1"}, {"q1", "invalid"}, AnswerTexts, {0}, {0})

(* calculatePoints on every question tier and an unknown id, for every     *)
(* whole timeTaken from below 0 to beyond the limit                         *)
InitPoints ==
    /\ InitStore /\ InitRest
    /\ maxParticipants = SeqQuiz
    /\ env = Env(1, 1, {}, {}, {}, QuestionArgs, {}, TimesAll, {})

(* incrementScore calls in flight together, on two members *)
InitIncr ==
    /\ InitStore /\ InitRest
    /\ maxParticipants = SmallQuiz
    /\ env = Env(MaxProcs, MaxIncr, {"A"}, Users, {}, {}, {}, {}, {})

(* handlers interleave; the participant sends a right and a wrong answer *)
InitLedger ==
    /\ InitStore /\ InitRest
    /\ maxParticipants = SmallQuiz
    /\ env = Env(MaxProcs, 0, {"A"}, {"u1"}, {"s1"}, {"q1"}, AnswerTexts, {0}, {0})

(* one call at a time, with the session key expiring in between *)
InitExpiry ==
    /\ InitStore /\ InitRest
    /\ maxParticipants = SeqQuiz
    /\ env = Env(1, 0, {"A"}, {"u1"}, {"s1"}, {}, {}, {}, {0})

(* one call at a time, one participant, the session key may expire *)
InitAbsent ==
    /\ InitStore /\ InitRest
    /\ maxParticipants = SeqQuiz
    /\ env = Env(1, 1, {"A"}, {"u1"}, {"s1"}, {"q1"}, {" joyful "}, {0}, {0})

(* getBalancedQuestions for every count from 0 to the largest the DTO admits *)
InitSelect ==
    /\ InitStore /\ InitRest
    /\ maxParticipants = SeqQuiz
    /\ env = Env(1, 1, {}, {}, {}, {}, {}, {}, Shuffles)

(* one call at a time, on either of two sessions *)
InitIndep ==
    /\ InitStore /\ InitRest
    /\ maxParticipants = SeqQuiz
    /\ env = Env(1, 0, QuizIds, {"u1"}, {"s1"}, {"q1"}, {" joyful "}, {0}, {0})

(* the gateway: one client, sockets with the ids of Users, one call at a    *)
(* time                                                                     *)
InitGateway ==
    /\ InitStore /\ InitRest
    /\ maxParticipants = SeqQuiz
    /\ env = Env(1, 1, {"A"}, Users, {}, {"q1"}, AnswerTexts, {0}, {0})

(* one call at a time, one participant, answers to a question of the quiz  *)
(* and to a bank question that a quiz of 2 questions does not hold         *)
InitForeign ==
    /\ InitStore /\ InitRest
    /\ maxParticipants = SeqQuiz
    /\ env = Env(1, 1, {"A"}, {"u1"}, {"s1"}, {"q1", "q11"},
             {" joyful ", "Lasting for a very short time"}, {0}, {0})

(* the session life cycle: every handler but submitAnswer *)
Lifecycle(p) ==
    \/ createQuiz(p)
    \/ joinQuiz(p)
    \/ joinQuiz_getParticipantCount(p)
    \/ joinQuiz_getParticipant(p)
    \/ joinQuiz_reconnect_sadd(p)
    \/ joinQuiz_reconnect_set(p)
    \/ joinQuiz_sadd(p)
    \/ joinQuiz_set(p)
    \/ joinQuiz_updateScore(p)
    \/ startQuiz(p)
    \/ startQuiz_getParticipantCount(p)
    \/ startQuiz_updateQuizSession_ttl(p)
    \/ startQuiz_updateQuizSession_set(p)
    \/ startQuiz_setCurrentQuestion(p)
    \/ nextQuestion(p)
    \/ nextQuestion_getCurrentQuestion(p)
    \/ nextQuestion_setCurrentQuestion(p)
    \/ nextQuestion_updateQuizSession_ttl(p)
    \/ nextQuestion_updateQuizSession_set(p)
    \/ getCurrentQuestion_getQuizSession(p)
    \/ getCurrentQuestion_getCurrentQuestion(p)
    \/ completeQuiz_getQuizSession(p)
    \/ completeQuiz_updateQuizSession_ttl(p)
    \/ completeQuiz_updateQuizSession_set(p)

Answering(p) ==
    \/ submitAnswer(p)
    \/ submitAnswer_getAnswer(p)
    \/ submitAnswer_cached_getScore(p)
    \/ submitAnswer_cached_getRank(p)
    \/ submitAnswer_score(p)
    \/ submitAnswer_storeAnswer(p)
    \/ submitAnswer_getParticipant(p)
    \/ submitAnswer_sadd(p)
    \/ submitAnswer_set(p)
    \/ submitAnswer_getRank(p)

Reading(p) == getCurrentQuestion(p)

Completing(p) == completeQuiz(p)

Ranking(p) ==
    \/ getLeaderboard(p)
    \/ getFullLeaderboard(p)
    \/ getFullLeaderboard_zrevrange(p)
    \/ getFullLeaderboard_getParticipant(p)
    \/ getLeaderboard_getAllAnswers(p)

Next == \E p \in Procs : Lifecycle(p) \/ Answering(p)

NextLifecycle == \E p \in Procs : Lifecycle(p)

NextRead == \E p \in Procs : Lifecycle(p) \/ Reading(p)

NextPoints == \E p \in Procs : callCalculatePoints(p)

NextIncr == \E p \in Procs : incrementScore(p) \/ incrementScore_zincrby(p)

NextExpiry ==
    \/ \E p \in Procs : Lifecycle(p)
    \/ \E quizId \in env.quizIds : sessionExpires(quizId)

NextBoard == \E p \in Procs : Lifecycle(p) \/ Answering(p) \/ Ranking(p)

NextAbsent ==
    \/ \E p \in Procs : \/ Lifecycle(p) \/ Answering(p) \/ Reading(p)
                        \/ Completing(p) \/ Ranking(p)
    \/ \E quizId \in env.quizIds : sessionExpires(quizId)

NextIndep ==
    \E p \in Procs : \/ Lifecycle(p) \/ Answering(p) \/ Reading(p)
                     \/ Completing(p) \/ Ranking(p)

(* the events of the transport: connect and disconnect, create_quiz,       *)
(* join_quiz, start_quiz, submit_answer, next_question                     *)
NextGateway ==
    \/ \E id \in Users : handleConnection(id) \/ handleDisconnect(id)
    \/ \E p \in Procs :
         \/ createQuiz(p)
         \/ handleJoinQuiz(p)
         \/ joinQuiz_getParticipantCount(p)
         \/ joinQuiz_getParticipant(p)
         \/ joinQuiz_reconnect_sadd(p)
         \/ joinQuiz_reconnect_set(p)
         \/ joinQuiz_sadd(p)
         \/ joinQuiz_set(p)
         \/ joinQuiz_updateScore(p)
         \/ handleJoinQuiz_maps(p)
         \/ startQuiz(p)
         \/ startQuiz_getParticipantCount(p)
         \/ startQuiz_updateQuizSession_ttl(p)
         \/ startQuiz_updateQuizSession_set(p)
         \/ startQuiz_setCurrentQuestion(p)
         \/ nextQuestion(p)
         \/ nextQuestion_getCurrentQuestion(p)
         \/ nextQuestion_setCurrentQuestion(p)
         \/ nextQuestion_updateQuizSession_ttl(p)
         \/ nextQuestion_updateQuizSession_set(p)
         \/ getCurrentQuestion_getQuizSession(p)
         \/ getCurrentQuestion_getCurrentQuestion(p)
         \/ completeQuiz_getQuizSession(p)
         \/ completeQuiz_updateQuizSession_ttl(p)
         \/ completeQuiz_updateQuizSession_set(p)
         \/ handleSubmitAnswer(p)
         \/ submitAnswer_getAnswer(p)
         \/ submitAnswer_cached_getScore(p)
         \/ submitAnswer_cached_getRank(p)
         \/ submitAnswer_score(p)
         \/ submitAnswer_storeAnswer(p)
         \/ submitAnswer_getParticipant(p)
         \/ submitAnswer_sadd(p)
         \/ submitAnswer_set(p)
         \/ submitAnswer_getRank(p)

NextSelect == \E p \in Procs : callGetBalancedQuestions(p)

(* two handlers in flight, one participant *)
Spec == Init /\ [][Next]_vars

(* one call at a time, two participants *)
SpecSeq == InitSeq /\ [][Next]_vars

(* one call at a time, the last two calls kept *)
SpecIdem == InitIdem /\ [][Next]_vars

(* two handlers in flight, two participants, no answers *)
SpecCap == InitCap /\ [][NextLifecycle]_vars

(* one call at a time, the life cycle and the question reads *)
SpecRead == InitSeq /\ [][NextRead]_vars

(* calculatePoints alone *)
SpecPoints == InitPoints /\ [][NextPoints]_vars

(* incrementScore alone, calls in flight together *)
SpecIncr == InitIncr /\ [][NextIncr]_vars

(* two handlers in flight, one participant, two answer texts *)
SpecLedger == InitLedger /\ [][Next]_vars

(* one call at a time, the session key may expire between any two commands *)
SpecExpiry == InitExpiry /\ [][NextExpiry]_vars

(* one call at a time, two participants, with the leaderboard reads *)
SpecBoard == InitSeq /\ [][NextBoard]_vars

(* one call at a time, every operation, the session key may expire *)
SpecAbsent == InitAbsent /\ [][NextAbsent]_vars

(* getBalancedQuestions alone *)
SpecSelect == InitSelect /\ [][NextSelect]_vars

(* one call at a time, every operation, two sessions *)
SpecIndep == InitIndep /\ [][NextIndep]_vars

(* the gateway and the service behind it, one call at a time *)
SpecGateway == InitGateway /\ [][NextGateway]_vars

(* one call at a time, answers to questions in and outside the quiz *)
SpecForeign == InitForeign /\ [][Next]_vars

---------------------------------------------------------------------------
(* Properties *)

Quiescent == \A p \in Procs : pc[p] = "idle"

Last == calls[Len(calls)]

(* a call has completed, no call is running: `pre` is the store before it  *)
After(op) == Quiescent /\ calls # <<>> /\ Last.call.op = op

RECURSIVE SumPoints(_, _)
SumPoints(records, keys) ==
    IF keys = {} THEN 0
    ELSE LET k == CHOOSE x \in keys : TRUE
         IN  (IF records[k] = Null THEN 0 ELSE records[k].earnedPoints)
               + SumPoints(records, keys \ {k})

LedgerSum(quizId, userId) == SumPoints(answers[quizId][userId], QuestionArgs)

(* C1: once the submitAnswer calls have returned, every stored AnswerRecord *)
(* stands for exactly one increment of the ranking score if it earned       *)
(* points, and for none if it earned none - also when two calls for the     *)
(* same (session, participant, question) ran together.                      *)
C1_ExactlyOnceScoring ==
    Quiescent =>
      \A q \in QuizIds, u \in Users, k \in QuestionArgs :
        answers[q][u][k] # Null =>
          scoreEvents[q][u][k] = IF answers[q][u][k].earnedPoints > 0 THEN 1 ELSE 0

(* C2: in every state, also between the store calls of a submitAnswer, the  *)
(* ranking score of every participant is the sum of the earnedPoints of     *)
(* the participant's stored AnswerRecords.                                  *)
C2_ScoreEqualsLedger ==
    \A q \in QuizIds, u \in Users : getScore(q, u) = LedgerSum(q, u)

(* C3: submitAnswer called twice in a row by a participant with the same    *)
(* arguments returns                                                        *)
(* the same correct, earnedPoints, currentScore and rank both times, and    *)
(* the second call leaves the ranking score, the participant record and     *)
(* the answer ledger as the first left them.                                *)
C3_IdempotentSubmission ==
    ( /\ Quiescent
      /\ Len(calls) = 2
      /\ calls[1].call.op = "submitAnswer"
      /\ calls[2].call = calls[1].call
      /\ calls[1].result.error = "none"
      /\ pre.participant[calls[1].call.quizId][calls[1].call.userId] # Null )
    => /\ calls[2].result.error = "none"
       /\ calls[2].result.value.correct = calls[1].result.value.correct
       /\ calls[2].result.value.earnedPoints = calls[1].result.value.earnedPoints
       /\ calls[2].result.value.currentScore = calls[1].result.value.currentScore
       /\ calls[2].result.value.rank = calls[1].result.value.rank
       /\ scores = pre.scores
       /\ participant = pre.participant
       /\ answers = pre.answers

(* C4: a step that is not the creation of a session changes a stored        *)
(* status only from Waiting to InProgress or from InProgress to Completed.  *)
C4_AllowedTransitions ==
    [][ (~ \E p \in Procs : createQuiz(p)) =>
          \A q \in QuizIds :
            (session[q] # Null /\ session'[q] # Null
               /\ session'[q].status # session[q].status)
            => \/ session[q].status = WAITING /\ session'[q].status = IN_PROGRESS
               \/ session[q].status = IN_PROGRESS /\ session'[q].status = COMPLETED
      ]_vars

(* C5: a step that is not the creation of a session never lowers a stored   *)
(* currentQuestionIndex, and the index stays within 0..len(questions).      *)
C5_MonotonicIndex ==
    [][ (~ \E p \in Procs : createQuiz(p)) =>
          \A q \in QuizIds :
            (session[q] # Null /\ session'[q] # Null)
            => /\ session'[q].currentQuestionIndex >= session[q].currentQuestionIndex
               /\ session'[q].currentQuestionIndex \in 0..Len(session'[q].questions)
      ]_vars

(* C6: startQuiz on a Waiting session without participants fails with       *)
(* BadRequest and changes nothing; with a participant it succeeds and       *)
(* stores status InProgress, a startTime and index 0; on a session that is  *)
(* InProgress or Completed it fails with BadRequest and changes nothing.    *)
C6_StartPreconditions ==
    After("startQuiz") =>
      LET q == Last.call.quizId
          s == pre.session[q]
          n == Cardinality(pre.participants[q])
          r == Last.result
      IN  s # Null =>
            IF s.status = WAITING /\ n >= 1
            THEN /\ r.error = "none"
                 /\ session[q] = [s EXCEPT !.status = IN_PROGRESS, !.startTime = TRUE,
                                           !.currentQuestionIndex = 0]
                 /\ r.value = session[q]
                 /\ currentQuestion[q] = 0
            ELSE /\ r.error = "BadRequest"
                 /\ Snapshot = pre

(* a second startQuiz, on the session the first one started, was rejected *)
C6_Witness ==
    /\ After("startQuiz")
    /\ pre.session[Last.call.quizId] # Null
    /\ pre.session[Last.call.quizId].status = IN_PROGRESS
    /\ pre.session[Last.call.quizId].startTime
    /\ Last.result.error = "BadRequest"

(* C7: the session of a quiz is written by startQuiz at most once, however  *)
(* the startQuiz calls interleave: one of two concurrent calls is rejected. *)
C7_NoDoubleStart == \A q \in QuizIds : startWrites[q] <= 1

(* C8: submitAnswer on a session that is Waiting or Completed fails with    *)
(* BadRequest and leaves ledger, scores and participant records unchanged.  *)
C8_SubmitRequiresInProgress ==
    After("submitAnswer") =>
      LET s == pre.session[Last.call.quizId]
      IN  (s # Null /\ s.status # IN_PROGRESS) =>
            /\ Last.result.error = "BadRequest"
            /\ answers = pre.answers
            /\ scores = pre.scores
            /\ participant = pre.participant
            /\ participants = pre.participants

(* a correct answer to a session question was rejected on a Waiting session *)
C8_Witness ==
    /\ After("submitAnswer")
    /\ pre.session[Last.call.quizId] # Null
    /\ pre.session[Last.call.quizId].status = WAITING
    /\ Last.call.userId \in pre.participants[Last.call.quizId]
    /\ validateAnswer(Last.call.questionId, Last.call.answer)
    /\ Last.result.error = "BadRequest"

(* C9: joinQuiz fails with NotFound exactly when the session is absent,     *)
(* with BadRequest 'already completed' when it is Completed, with           *)
(* BadRequest (and 'full', unless Completed) when the participant count has *)
(* reached maxParticipants, and succeeds otherwise, in Waiting and in       *)
(* InProgress.                                                              *)
C9_JoinRejections ==
    After("joinQuiz") =>
      LET q == Last.call.quizId
          s == pre.session[q]
          n == Cardinality(pre.participants[q])
          r == Last.result
      IN  /\ (r.error = "NotFound") <=> (s = Null)
          /\ s # Null =>
               /\ s.status = COMPLETED =>
                    r = BadRequestException("Quiz has already completed")
               /\ n >= maxParticipants => r.error = "BadRequest"
               /\ (s.status # COMPLETED /\ n >= maxParticipants) =>
                    r = BadRequestException("Quiz is full")
               /\ (s.status \in {WAITING, IN_PROGRESS} /\ n < maxParticipants) =>
                    r.error = "none"

(* a join was turned away from a full quiz that is in progress *)
C9_Witness ==
    /\ After("joinQuiz")
    /\ pre.session[Last.call.quizId] # Null
    /\ pre.session[Last.call.quizId].status = IN_PROGRESS
    /\ Cardinality(pre.participants[Last.call.quizId]) = maxParticipants
    /\ Last.result = BadRequestException("Quiz is full")

(* C10: the participant set of a quiz never holds more than maxParticipants *)
(* members, however the joinQuiz calls of distinct participants interleave. *)
C10_CapacityBound ==
    \A q \in QuizIds : Cardinality(participants[q]) <= maxParticipants

(* C11: joinQuiz by a user who already has a Participant record, on a       *)
(* session that is not Completed and whatever its participant count,        *)
(* succeeds, replaces only the socketId of that record and leaves the       *)
(* participant set, the ranking scores and the answer ledger unchanged.     *)
C11_ReconnectionSafe ==
    After("joinQuiz") =>
      LET q == Last.call.quizId
          u == Last.call.userId
          s == pre.session[q]
      IN  (s # Null /\ s.status # COMPLETED /\ pre.participant[q][u] # Null) =>
            /\ Last.result.error = "none"
            /\ participant =
                 [pre.participant EXCEPT ![q][u].socketId = Last.call.socketId]
            /\ participants = pre.participants
            /\ scores = pre.scores
            /\ answers = pre.answers

(* C12: every question that getCurrentQuestion or nextQuestion returns is a *)
(* question of the session with its correctAnswer field set to the empty    *)
(* string, whatever the status of the session and the question index.       *)
C12_SanitizedQuestions ==
    ( /\ Quiescent /\ calls # <<>>
      /\ Last.call.op \in {"getCurrentQuestion", "nextQuestion"}
      /\ Last.result.error = "none"
      /\ Last.result.value # Null )
    => LET v == Last.result.value
           questions == session[Last.call.quizId].questions
       IN  /\ v.correctAnswer = ""
           /\ \E i \in DOMAIN questions :
                 /\ questions[i].correctAnswer # ""
                 /\ [v EXCEPT !.correctAnswer = questions[i].correctAnswer] = questions[i]

(* getCurrentQuestion returned the second question after an advance *)
C12_Witness ==
    /\ After("getCurrentQuestion")
    /\ Last.result.error = "none"
    /\ session[Last.call.quizId].status = IN_PROGRESS
    /\ session[Last.call.quizId].currentQuestionIndex = 1
    /\ Last.result.value.id = session[Last.call.quizId].questions[2].id
    /\ Last.result.value.correctAnswer = ""

(* C13: startQuiz leaves the question index at 0, and every nextQuestion    *)
(* on an InProgress session whose index is k - 1 (the k-th advance, issued  *)
(* on its own) either stores index k and returns question k without its    *)
(* answer, when k < n, or, when k = n, returns null and stores status       *)
(* Completed with an endTime: a started session of n questions is           *)
(* Completed after exactly n advances.                                      *)
C13_AdvanceAndComplete ==
    /\ (After("startQuiz") /\ Last.result.error = "none") =>
          /\ currentQuestion[Last.call.quizId] = 0
          /\ session[Last.call.quizId].currentQuestionIndex = 0
    /\ After("nextQuestion") =>
          LET q == Last.call.quizId
              s == pre.session[q]
          IN  (s # Null /\ s.status = IN_PROGRESS) =>
                LET n == Len(s.questions)
                    k == s.currentQuestionIndex + 1
                IN  /\ pre.currentQuestion[q] = k - 1
                    /\ k <= n
                    /\ IF k < n
                       THEN /\ Last.result =
                                 Ok([s.questions[k + 1] EXCEPT !.correctAnswer = ""])
                            /\ session[q] = [s EXCEPT !.currentQuestionIndex = k]
                            /\ currentQuestion[q] = k
                       ELSE /\ Last.result = Ok(Null)
                            /\ session[q] = [s EXCEPT !.status = COMPLETED,
                                                      !.endTime = TRUE]
                            /\ currentQuestion[q] = k - 1

(* the second advance of a started two-question quiz completed it *)
C13_Witness ==
    /\ After("nextQuestion")
    /\ pre.session[Last.call.quizId] # Null
    /\ pre.session[Last.call.quizId].status = IN_PROGRESS
    /\ pre.session[Last.call.quizId].currentQuestionIndex = 1
    /\ Last.result = Ok(Null)
    /\ session[Last.call.quizId].status = COMPLETED
    /\ session[Last.call.quizId].endTime

(* C14: nextQuestion on a session that is not InProgress changes nothing:   *)
(* on a Waiting session the stored session and the question index stay as   *)
(* they were, and on a Completed session they stay as they were and the     *)
(* call returns null.                                                       *)
C14_NextQuestionStateChecked ==
    After("nextQuestion") =>
      LET q == Last.call.quizId
          s == pre.session[q]
      IN  (s # Null /\ s.status # IN_PROGRESS) =>
            /\ session[q] = s
            /\ currentQuestion[q] = pre.currentQuestion[q]
            /\ s.status = COMPLETED => Last.result = Ok(Null)

(* r is x = num / den (den > 0) rounded to the nearest integer, a half      *)
(* rounded upwards                                                          *)
IsRounded(r, num, den) ==
    (2 * r - 1) * den <= 2 * num /\ 2 * num < (2 * r + 1) * den

C16_ScoringBounds ==
    After("calculatePoints") =>
      LET c == Last.call
          v == Last.result.value
          question == getQuestionById(c.questionId)
      IN  (c.isCorrect /\ question # Null) =>
            /\ \E top \in question.points..(2 * question.points) :
                  /\ IsRounded(top, 3 * question.points, 2)
                  /\ question.points <= v /\ v <= top
                  /\ c.timeTaken <= 0 => v = top
            /\ c.timeTaken >= c.timeLimit => v = question.points

(* C17: a step changes the ranking score of a member that has one only by   *)
(* the increment of a first-time submitAnswer, which adds the points it     *)
(* earned; no other step overwrites or resets a ranking score.              *)
C17_ScoreMutationPath ==
    [][ \A q \in QuizIds, u \in Users :
          (scores[q][u] # NoScore /\ scores'[q][u] # scores[q][u]) =>
            \E p \in Procs :
              /\ submitAnswer_score(p)
              /\ call[p].quizId = q /\ call[p].userId = u
              /\ scores'[q][u] = scores[q][u] + loc[p].earnedPoints
      ]_vars

(* the sum of the increments of the first n completed calls on a member *)
RECURSIVE SumIncrements(_, _, _)
SumIncrements(n, quizId, userId) ==
    IF n = 0 THEN 0
    ELSE (IF calls[n].call.quizId = quizId /\ calls[n].call.userId = userId
          THEN calls[n].call.increment ELSE 0)
           + SumIncrements(n - 1, quizId, userId)

(* C18: every incrementScore is reflected exactly once, however the calls   *)
(* overlap: the score of a member is the sum of the increments of the       *)
(* completed calls on it (the initial score being 0), and each call         *)
(* returns the sum up to and with its own increment, so the call that       *)
(* completes last returns the final score.                                  *)
C18_AtomicIncrement ==
    /\ \A q \in QuizIds, u \in Users :
          getScore(q, u) = SumIncrements(Len(calls), q, u)
    /\ \A i \in DOMAIN calls :
          calls[i].result.value =
            SumIncrements(i, calls[i].call.quizId, calls[i].call.userId)

(* two calls with different increments on one member were both sent before *)
(* either was executed, and both have completed                             *)
C18_Witness ==
    /\ Quiescent
    /\ Len(calls) = 2
    /\ calls[1].call.userId = calls[2].call.userId
    /\ calls[1].call.increment # calls[2].call.increment
    /\ pre.scores[calls[2].call.quizId][calls[2].call.userId] = NoScore
    /\ calls[2].result.value = calls[1].call.increment + calls[2].call.increment

(* C19: the answer ledger is write-once: no step replaces a stored          *)
(* AnswerRecord, so getAnswer keeps returning the record stored first for   *)
(* a (session, participant, question) triple.                               *)
C19_WriteOnceLedger ==
    [][ \A q \in QuizIds, u \in Users, k \in QuestionArgs :
          answers[q][u][k] # Null => answers'[q][u][k] = answers[q][u][k]
      ]_vars

(* C20: a session key that is absent - never created, or expired, also      *)
(* while a startQuiz, nextQuestion or completeQuiz is in flight - stays     *)
(* absent: no step but the creation of a session writes it into the store.  *)
C20_NoResurrection ==
    [][ (~ \E p \in Procs : createQuiz(p)) =>
          \A q \in QuizIds : session[q] = Null => session'[q] = Null
      ]_vars

(* C21: the session writes of startQuiz, nextQuestion and completeQuiz keep *)
(* the lifetime of the session key: a stored session always has an expiry,  *)
(* and never a longer one than createQuiz gave it.                          *)
C21_TTLPreserved ==
    \A q \in QuizIds :
      session[q] # Null => sessionTTL[q] \in 1..QUIZ_SESSION_TTL

(* C22: called for a session id that is not in the store, never created or  *)
(* expired, each of the eight operations fails with NotFound and leaves the *)
(* store as it was.                                                         *)
C22_AbsentSessionNotFound ==
    (/\ Quiescent /\ calls # <<>>
     /\ Last.call.op \in {"joinQuiz", "startQuiz", "getCurrentQuestion",
                          "nextQuestion", "submitAnswer", "getLeaderboard",
                          "getFullLeaderboard", "completeQuiz"}
     /\ pre.session[Last.call.quizId] = Null)
    => /\ Last.result.error = "NotFound"
       /\ Snapshot = pre

(* getFullLeaderboard on an expired session that had a participant *)
C22_Witness ==
    /\ After("getFullLeaderboard")
    /\ pre.session[Last.call.quizId] = Null
    /\ pre.sessionTTL[Last.call.quizId] = -2
    /\ pre.participants[Last.call.quizId] # {}
    /\ Last.result.error = "NotFound"

(* C23: a joinQuiz, startQuiz or submitAnswer that fails (wrong status,     *)
(* full quiz, no participants, unknown question id, absent session) leaves  *)
(* the session, the participant set and records, the scores, the answer     *)
(* records and the question index exactly as they were before the call.     *)
C23_RejectedLeavesStore ==
    (/\ Quiescent /\ calls # <<>>
     /\ Last.call.op \in {"joinQuiz", "startQuiz", "submitAnswer"}
     /\ Last.result.error # "none")
    => Snapshot = pre

(* an answer to a question id that resolves to no question, sent to a quiz  *)
(* in progress by a participant with a score                                *)
C23_Witness ==
    /\ After("submitAnswer")
    /\ Last.result.error = "NotFound"
    /\ Last.call.questionId = "invalid"
    /\ session[Last.call.quizId] # Null
    /\ session[Last.call.quizId].status = IN_PROGRESS
    /\ scores[Last.call.quizId][Last.call.userId] > 0

(* C24: in every reachable state a session whose stored status is in        *)
(* progress has a participant: some joinQuiz has added a member to the      *)
(* participant set of its id.                                               *)
C24_InProgressHasParticipant ==
    \A q \in QuizIds :
      (session[q] # Null /\ session[q].status = IN_PROGRESS)
      => participants[q] # {}

(* startQuiz has written the session while a second handler is in flight *)
C24_Witness ==
    \E q \in QuizIds :
      /\ session[q] # Null /\ session[q].status = IN_PROGRESS
      /\ startWrites[q] >= 1
      /\ \E p \in Procs : pc[p] # "idle" /\ call[p].op = "joinQuiz"

(* C25: the rank in the result of a participant's first-time submitAnswer   *)
(* is 1 + the number of ranking members ahead of the participant after the  *)
(* score update; a member whose score is strictly the highest has store     *)
(* rank 0; and a leaderboard query returns the order of the ranking as it   *)
(* stands, so queries with no write in between return the same order.       *)
C25_RankReporting ==
    /\ (/\ After("submitAnswer")
        /\ Last.result.error = "none"
        /\ pre.answers[Last.call.quizId][Last.call.userId][Last.call.questionId] = Null
        /\ scores[Last.call.quizId][Last.call.userId] # NoScore)
       => Last.result.value.rank =
            1 + Cardinality({v \in Users \ {Last.call.userId} :
                   \/ scores[Last.call.quizId][v] > scores[Last.call.quizId][Last.call.userId]
                   \/ /\ scores[Last.call.quizId][v] = scores[Last.call.quizId][Last.call.userId]
                      /\ \E i, j \in 1..Len(zrevrange(Last.call.quizId)) :
                           /\ i < j
                           /\ zrevrange(Last.call.quizId)[i].userId = v
                           /\ zrevrange(Last.call.quizId)[j].userId = Last.call.userId})
    /\ \A q \in QuizIds, u \in Users :
         (/\ scores[q][u] # NoScore
          /\ \A v \in Users \ {u} : scores[q][v] < scores[q][u])
         => getRank(q, u) = [rank |-> 0]
    /\ (After("getFullLeaderboard") /\ Last.result.error = "none")
       => /\ Len(Last.result.value) = Len(zrevrange(Last.call.quizId))
          /\ \A i \in 1..Len(Last.result.value) :
               /\ Last.result.value[i].userId = zrevrange(Last.call.quizId)[i].userId
               /\ getRank(Last.call.quizId, Last.result.value[i].userId) = [rank |-> i - 1]

(* a first answer, a wrong one, by a participant ranked behind another *)
C25_Witness ==
    /\ After("submitAnswer")
    /\ Last.result.error = "none"
    /\ pre.answers[Last.call.quizId][Last.call.userId][Last.call.questionId] = Null
    /\ scores[Last.call.quizId][Last.call.userId] # NoScore
    /\ Last.result.value.rank = 2
    /\ \E v \in Users : scores[Last.call.quizId][v] > scores[Last.call.quizId][Last.call.userId]

(* C26: members with equal scores appear in the leaderboard in the order in *)
(* which they arrived: when a first join has registered its zero score, the *)
(* members that were registered before it with the same score precede the  *)
(* newcomer in the order that getLeaderboard and getFullLeaderboard return. *)
C26_TieBreakByArrival ==
    (/\ After("joinQuiz")
     /\ Last.result.error = "none"
     /\ pre.scores[Last.call.quizId][Last.call.userId] = NoScore)
    => \A v \in Users \ {Last.call.userId} :
         (/\ pre.scores[Last.call.quizId][v] # NoScore
          /\ scores[Last.call.quizId][v] = scores[Last.call.quizId][Last.call.userId])
         => \E i, j \in 1..Len(zrevrange(Last.call.quizId)) :
              /\ i < j
              /\ zrevrange(Last.call.quizId)[i].userId = v
              /\ zrevrange(Last.call.quizId)[j].userId = Last.call.userId

(* C27: getLeaderboard(session, limit) returns the first min(limit, N)      *)
(* entries of the descending ranking of N members: scores non-increasing,   *)
(* ranks 1..k, and each entry's totalAnswers the number of the member's     *)
(* answer records and correctAnswers the number of them with correct true.  *)
C27_EnrichedTopN ==
    (After("getLeaderboard") /\ Last.result.error = "none")
    => LET q == Last.call.quizId
           r == Last.result.value
           ranking == zrevrange(q)
           k == IF Last.call.limit < Len(ranking) THEN Last.call.limit ELSE Len(ranking)
       IN  /\ Len(r) = k
           /\ \A i \in 1..k :
                /\ r[i].userId = ranking[i].userId
                /\ r[i].score = scores[q][r[i].userId]
                /\ r[i].rank = i
                /\ i < k => r[i].score >= r[i + 1].score
                /\ r[i].totalAnswers =
                     Cardinality({x \in QuestionArgs : answers[q][r[i].userId][x] # Null})
                /\ r[i].correctAnswers =
                     Cardinality({x \in QuestionArgs :
                                    /\ answers[q][r[i].userId][x] # Null
                                    /\ answers[q][r[i].userId][x].correct})

(* the top entry of two members, cut by the limit, with a wrong answer on   *)
(* record                                                                   *)
C27_Witness ==
    /\ After("getLeaderboard")
    /\ Last.result.error = "none"
    /\ Last.call.limit = 1
    /\ Len(zrevrange(Last.call.quizId)) = 2
    /\ Len(Last.result.value) = 1
    /\ Last.result.value[1].totalAnswers = 1
    /\ Last.result.value[1].correctAnswers = 0

(* C28: a first joinQuiz leaves a Participant with score 0 and              *)
(* answersSubmitted 0 and the member registered in the ranking with score   *)
(* 0; and every getFullLeaderboard result lists every member of the         *)
(* participant set exactly once.                                            *)
C28_LeaderboardCoverage ==
    /\ (/\ After("joinQuiz")
        /\ Last.result.error = "none"
        /\ pre.participant[Last.call.quizId][Last.call.userId] = Null)
       => /\ participant[Last.call.quizId][Last.call.userId] # Null
          /\ participant[Last.call.quizId][Last.call.userId].score = 0
          /\ participant[Last.call.quizId][Last.call.userId].answersSubmitted = 0
          /\ scores[Last.call.quizId][Last.call.userId] = 0
    /\ (After("getFullLeaderboard") /\ Last.result.error = "none")
       => \A u \in participants[Last.call.quizId] :
            Cardinality({i \in 1..Len(Last.result.value) :
                           Last.result.value[i].userId = u}) = 1

(* the full leaderboard of two participants, one of them with points *)
C28_Witness ==
    /\ After("getFullLeaderboard")
    /\ Last.result.error = "none"
    /\ participants[Last.call.quizId] = Users
    /\ Len(Last.result.value) = 2
    /\ Last.result.value[1].score > 0
    /\ Last.result.value[2].score = 0

(* the questions of one difficulty in a selection, and in the bank *)
Tier(questions, d) ==
    Cardinality({i \in 1..Len(questions) : questions[i].difficulty = d})

Least(a, b) == IF a < b THEN a ELSE b

(* C29: getBalancedQuestions(c) aims at 40% easy, 40% medium (each rounded   *)
(* up) and the rest hard, and takes a whole tier when its pool is smaller   *)
(* than the target: c = 10 gives 4/4/2 and c = 5 gives 2/2/1, c questions   *)
(* in all, and c = 20 on the bank of 5 easy, 5 medium and 10 hard gives     *)
(* 5, 5 and 4.  The hard tier is stated for the counts whose hard target    *)
(* is not negative.                                                         *)
C29_StratifiedSelection ==
    After("getBalancedQuestions")
    => LET c == Last.call.count
           r == Last.result.value
       IN  /\ \E e \in 0..c :
                /\ 5 * e >= 2 * c /\ 5 * (e - 1) < 2 * c
                /\ Tier(r, "easy") = Least(e, Tier(QUESTION_BANK, "easy"))
                /\ Tier(r, "medium") = Least(e, Tier(QUESTION_BANK, "medium"))
                /\ c - 2 * e >= 0
                   => Tier(r, "hard") = Least(c - 2 * e, Tier(QUESTION_BANK, "hard"))
           /\ c = 10 => /\ Len(r) = 10
                        /\ <<Tier(r, "easy"), Tier(r, "medium"), Tier(r, "hard")>> = <<4, 4, 2>>
           /\ c = 5 => /\ Len(r) = 5
                       /\ <<Tier(r, "easy"), Tier(r, "medium"), Tier(r, "hard")>> = <<2, 2, 1>>
           /\ c = 20 => <<Tier(r, "easy"), Tier(r, "medium"), Tier(r, "hard")>> = <<5, 5, 4>>

(* 20 questions asked of a bank with 5 easy and 5 medium ones *)
C29_Witness ==
    /\ After("getBalancedQuestions")
    /\ Last.call.count = 20
    /\ Len(Last.result.value) = 14
    /\ Tier(QUESTION_BANK, "easy") = 5
    /\ Tier(QUESTION_BANK, "hard") = 10

(* what the store holds for one session *)
QuizStore(q) ==
    <<session[q], sessionTTL[q], participants[q], participant[q], scores[q],
      answers[q], currentQuestion[q]>>

C31_ParticipantRetention ==
    [][/\ \A q \in QuizIds, u \in Users :
            session[q] # Null
            => /\ participant[q][u] # Null => participant'[q][u] # Null
               /\ u \in participants[q] => u \in participants'[q]
               /\ scores[q][u] # NoScore => scores'[q][u] # NoScore
               /\ \A k \in QuestionArgs :
                    answers[q][u][k] # Null => answers'[q][u][k] # Null
       /\ (connections' # connections /\ connections' \subseteq connections)
          => Snapshot' = Snapshot]_vars

(* a participant with points and an answer on record whose socket has been *)
(* closed and whose gateway mappings are gone, in a live session           *)
C31_Witness ==
    \E q \in QuizIds, id \in Users :
      /\ session[q] # Null
      /\ participant[q][id] # Null
      /\ scores[q][id] > 0
      /\ answers[q][id]["q1"] # Null
      /\ clientOf[id] # "-"
      /\ id \notin connections
      /\ socketUserMap[id] = Null /\ userSocketMap[id] = Null

(* C32: once a session is completed, no step of a nextQuestion that is in  *)
(* flight writes it back as in progress.                                   *)
C32_NoStaleAfterCompletion ==
    [][\A p \in Procs :
         (call[p].op = "nextQuestion" /\ pc[p] # "idle" /\ pc'[p] # pc[p])
         => \A q \in QuizIds :
              (session[q] # Null /\ session[q].status = COMPLETED /\ session'[q] # Null)
              => session'[q].status # IN_PROGRESS]_vars

(* C33: a client that disconnects, reconnects on a new socket and sends     *)
(* join_quiz again for the same quiz resumes its Participant record: in no  *)
(* state does one client own two Participant records or two leaderboard     *)
(* entries of a quiz.                                                       *)
C33_GatewayReconnection ==
    \A q \in QuizIds, c \in Clients :
      /\ Cardinality({id \in Users : clientOf[id] = c /\ participant[q][id] # Null}) <= 1
      /\ Cardinality({id \in Users : clientOf[id] = c /\ scores[q][id] # NoScore}) <= 1

(* C34: createQuiz stores a waiting session with index 0 and the configured *)
(* lifetime under an id that no live session has, and the new session       *)
(* starts with no participants, no scores and no answer records.            *)
C34_FreshSession ==
    After("createQuiz")
    => LET q == Last.call.quizId
       IN  /\ session[q] = Last.result.value
           /\ session[q].status = WAITING
           /\ session[q].currentQuestionIndex = 0
           /\ sessionTTL[q] = QUIZ_SESSION_TTL
           /\ pre.session[q] = Null
           /\ participants[q] = {}
           /\ \A u \in Users :
                /\ participant[q][u] = Null
                /\ scores[q][u] = NoScore
                /\ \A k \in QuestionArgs : answers[q][u][k] = Null

(* C35: for every session and participant the ranking score never           *)
(* decreases: in every step its value is at least its value before.         *)
C35_ScoresNeverDecrease ==
    [][\A q \in QuizIds, u \in Users : scores'[q][u] >= scores[q][u]]_vars

(* C36: in every reachable state every member of a session's ranking and    *)
(* every owner of an answer record has a Participant record in the session: *)
(* a submitAnswer of an id that never joined ranks and records nothing.     *)
C36_OnlyParticipantsRanked ==
    \A q \in QuizIds, u \in Users :
      (\/ scores[q][u] # NoScore
       \/ \E k \in QuestionArgs : answers[q][u][k] # Null)
      => participant[q][u] # Null

(* C37: whenever no operation is in flight, the answersSubmitted of each    *)
(* Participant record is the number of the participant's answer records    *)
(* and its cached score is its ranking score.                              *)
C37_ParticipantCache ==
    Quiescent
    => \A q \in QuizIds, u \in Users :
         participant[q][u] # Null
         => /\ participant[q][u].answersSubmitted =
                 Cardinality({k \in QuestionArgs : answers[q][u][k] # Null})
            /\ participant[q][u].score = getScore(q, u)

(* C38: with no operation in flight, the index in the current-question key *)
(* equals the currentQuestionIndex in the session record; stated here for   *)
(* a session that startQuiz has started since it was created.              *)
C38_SingleQuestionPointer ==
    Quiescent
    => \A q \in QuizIds :
         (session[q] # Null /\ startWrites[q] >= 1)
         => getCurrentQuestionIndex(q) = session[q].currentQuestionIndex

(* C39: a submitAnswer for a question id that is not in the session's own   *)
(* question list changes no score and writes no answer record.              *)
C39_OnlySessionQuestions ==
    (/\ After("submitAnswer")
     /\ pre.session[Last.call.quizId] # Null
     /\ \A i \in 1..Len(pre.session[Last.call.quizId].questions) :
          pre.session[Last.call.quizId].questions[i].id # Last.call.questionId)
    => /\ scores = pre.scores
       /\ answers = pre.answers

(* C40: for every count c in 0..50, getBalancedQuestions(c) returns at most *)
(* c questions, all distinct and all from the bank.                         *)
C40_SelectionSizeBound ==
    After("getBalancedQuestions")
    => LET c == Last.call.count
           r == Last.result.value
       IN  /\ Len(r) <= c
           /\ \A i, j \in 1..Len(r) : r[i].id = r[j].id => i = j
           /\ \A i \in 1..Len(r) : \E k \in 1..Len(QUESTION_BANK) : r[i] = QUESTION_BANK[k]

===========================================================================
